---- MODULE Spec2Model ----
(***************************************************************************)
(* A model of the SoftLayer Ansible modules sl_sshkey.py (SSH keys) and    *)
(* sl_vs_server.py (virtual servers).  The provider (the SoftLayer SDK's   *)
(* SshKeyManager and VSManager) is the environment: it holds the account's *)
(* keys and instances and answers each call, or raises.                    *)
(*                                                                         *)
(* SpecKey    sequential invocations of sl_sshkey.main                     *)
(* SpecServer sequential invocations of sl_vs_server.main, one provider    *)
(*            call per step                                                *)
(* SpecRace   two sl_vs_server processes whose provider calls interleave   *)
(* SpecEither one of the two modules, invoked again and again              *)
(* SpecFingerprint  _get_fingerprint applied to two key texts              *)
(***************************************************************************)
EXTENDS Integers, Sequences, FiniteSets, TLC

VARIABLES
    keys,       \* the account's SSH keys, in the order list_keys returns them
    keyNextId,  \* the id the provider gives the next key
    kcur,       \* the sl_sshkey invocation that ran last
    kprev,      \* the sl_sshkey invocation before that
    kcount,     \* sl_sshkey invocations so far
    insts,      \* the account's virtual servers, in the order list_instances returns them
    instNextId, \* the id the provider gives the next instance
    procs,      \* the sl_vs_server invocation each process is running, or ran last
    scount,     \* sl_vs_server invocations started so far
    fpIn,       \* two key texts given to _get_fingerprint, by their parts
    fpOut       \* what _get_fingerprint returned for them, once it has

kvars == <<keys, keyNextId, kcur, kprev, kcount>>

svars == <<insts, instNextId, procs, scount>>

fvars == <<fpIn, fpOut>>

vars == <<keys, keyNextId, kcur, kprev, kcount, insts, instNextId, procs, scount,
          fpIn, fpOut>>

----------------------------------------------------------------------------
(* Bounds *)

MaxKeys == 2        \* keys on the account in the initial state
MaxKeyInv == 2      \* sl_sshkey invocations in one run
MaxInsts == 2       \* instances on the account in the initial state
MaxSrvInv == 2      \* sl_vs_server invocations in one run

----------------------------------------------------------------------------
(* Python values *)

\* None and '' of a str parameter: both are falsy, and both make
\* _get_fingerprint raise (AttributeError and IndexError).
NoText == << >>

NoFingerprint == [error |-> "none"]

NoKey == [id |-> 0, label |-> "", fingerprint |-> NoFingerprint]

NoResult == [kind |-> "none", changed |-> FALSE, msg |-> "", key |-> NoKey]

exit_json(changed, key, msg) ==
    [kind |-> "exit_json", changed |-> changed, msg |-> msg, key |-> key]

fail_json(msg) ==
    [kind |-> "fail_json", changed |-> FALSE, msg |-> msg, key |-> NoKey]

\* An exception nothing catches: the module ends with a traceback and
\* reports no result.
Uncaught(what) ==
    [kind |-> "exception", changed |-> FALSE, msg |-> what, key |-> NoKey]

MsgUsingKey == "A key with this fingerprint already exists on this account, using key"
MsgLabelExists == "A key with label already exists with a different public key on this account"
MsgKeyMustBeGiven == "A key must be given. No sshkey created."
MsgNotCreated == "The key was not succesfully created"
MsgMoreThanOne == "More than one sshkey named. No keys deleted"

----------------------------------------------------------------------------
(* _get_fingerprint: str.strip().split(), base64.b64decode, hashlib.md5 *)

Whitespace == {" "}

\* str.split(): the maximal runs of non-whitespace characters, in order.
\* (strip() first changes nothing that split() does not already drop.)
RECURSIVE SplitFrom(_, _, _)
SplitFrom(s, i, word) ==
    IF i > Len(s)
    THEN IF word = << >> THEN << >> ELSE <<word>>
    ELSE IF s[i] \in Whitespace
         THEN IF word = << >>
              THEN SplitFrom(s, i + 1, << >>)
              ELSE <<word>> \o SplitFrom(s, i + 1, << >>)
         ELSE SplitFrom(s, i + 1, Append(word, s[i]))

split(s) == SplitFrom(s, 1, << >>)

\* The base64 alphabet, as far as the model's key texts use it.
B64Chars == {"A", "B", "Q", "g", "w"}

B64Val(c) ==
    CASE c = "A" -> 0
      [] c = "B" -> 1
      [] c = "Q" -> 16
      [] c = "g" -> 32
      [] c = "w" -> 48

Pow2(n) == 2 ^ n

\* binascii.a2b_base64: characters outside the alphabet are skipped; each
\* alphabet character shifts six bits in, and every eight bits collected give
\* a byte; '=' ends the input once at least two characters of the current
\* quad were read (for exactly two, only when another '=' follows); bits
\* left over at the end of the input are "Incorrect padding".
RECURSIVE A2B(_, _, _, _, _, _)
A2B(s, i, quad_pos, leftchar, leftbits, out) ==
    IF i > Len(s)
    THEN IF leftbits # 0 THEN [error |-> "Incorrect padding"] ELSE [bytes |-> out]
    ELSE IF s[i] = "="
         THEN IF \/ quad_pos < 2
                 \/ /\ quad_pos = 2
                    /\ ~ \E j \in (i + 1)..Len(s) :
                           /\ s[j] = "="
                           /\ \A m \in (i + 1)..(j - 1) : s[m] \notin B64Chars
              THEN A2B(s, i + 1, quad_pos, leftchar, leftbits, out)
              ELSE [bytes |-> out]
         ELSE IF s[i] \notin B64Chars
              THEN A2B(s, i + 1, quad_pos, leftchar, leftbits, out)
              ELSE LET lc == leftchar * 64 + B64Val(s[i])
                       lb == leftbits + 6
                   IN  IF lb >= 8
                       THEN A2B(s, i + 1, (quad_pos + 1) % 4,
                                lc % Pow2(lb - 8), lb - 8,
                                Append(out, (lc \div Pow2(lb - 8)) % 256))
                       ELSE A2B(s, i + 1, (quad_pos + 1) % 4, lc, lb, out)

b64decode(s) == A2B(s, 1, 0, 0, 0, << >>)

\* hashlib.md5(key).hexdigest(), joined in colon-separated pairs.  The digest
\* is not computed: it is a value that names the bytes it was taken of, so two
\* digests are equal exactly when the bytes are (no collisions).
md5_colon(bytes) == [md5 |-> bytes]

\* Lines 95-99 without the b64decode of line 97: the digest of the field's
\* characters.
FingerprintOfField(public_key) ==
    IF Len(split(public_key)) < 2
    THEN [error |-> "IndexError"]
    ELSE LET key == b64decode(split(public_key)[2])
         IN  IF "error" \in DOMAIN key
             THEN [error |-> "TypeError"]
             ELSE md5_colon(split(public_key)[2])

\* A fingerprint, or [error |-> ...] for the exception the call raises.
_get_fingerprint(public_key) ==
    IF Len(split(public_key)) < 2
    THEN [error |-> "IndexError"]
    ELSE LET key == b64decode(split(public_key)[2])
         IN  IF "error" \in DOMAIN key
             THEN [error |-> "TypeError"]
             ELSE md5_colon(key.bytes)

IsError(v) == "error" \in DOMAIN v

----------------------------------------------------------------------------
(* The inputs of sl_sshkey *)

Labels == {"k1", "k2"}

TextA  == <<"r", " ", "Q", "Q", "=", "=", " ", "c">>   \* ssh-rsa QQ== comment
TextA2 == <<" ", "d", " ", "Q", "Q", "=", "=">>        \* other type, no comment
TextB  == <<"r", " ", "Q", "g", "=", "=">>             \* other key material
TextOneField == <<"r">>                                \* no second field
TextBadPad == <<"r", " ", "Q">>                        \* not base64

KeyTexts == {NoText, TextOneField, TextBadPad, TextA, TextA2, TextB}

\* The fingerprints the provider has computed for the keys on the account.
AccountFingerprints == {md5_colon(<<65>>), md5_colon(<<66>>)}

KeyRecords ==
    [id : {0}, label : Labels, fingerprint : AccountFingerprints]

RECURSIVE SeqsUpTo(_, _)
SeqsUpTo(S, n) ==
    IF n = 0 THEN {<< >>}
    ELSE LET shorter == SeqsUpTo(S, n - 1)
         IN  shorter \cup {Append(s, x) : s \in {t \in shorter : Len(t) = n - 1}, x \in S}

\* The provider's ids are unique: the i-th initial key has id i.
Numbered(s) == [i \in 1..Len(s) |-> [s[i] EXCEPT !.id = i]]

----------------------------------------------------------------------------
(* The inputs and values of sl_vs_server *)

Procs == {1, 2}

\* None and '' of a str parameter, None and 0 of an int parameter: falsy.
NoStr == ""
NoInt == 0

\* The instance_specs dict given to create_instance; a key the dict does not
\* hold has the falsy value here.
NoSpecs ==
    [domain |-> NoStr, hostname |-> NoStr, memory |-> NoInt, cpus |-> NoInt,
     datacenter |-> NoStr, hourly |-> FALSE, image_id |-> NoInt,
     os_code |-> NoStr, local_disk |-> FALSE, dedicated |-> FALSE,
     tags |-> NoStr]

\* The provider's record of an instance: "by" is the invocation whose
\* create_instance made it (0: it was there before), "specs" what it was
\* ordered with, "full" whether the record is get_instance's full record or
\* an entry of list_instances.
NoInst ==
    [id |-> 0, hostname |-> NoStr, domain |-> NoStr, datacenter |-> NoStr,
     by |-> 0, specs |-> NoSpecs, full |-> FALSE]

InitialInsts ==
    {[NoInst EXCEPT !.hostname = n[1], !.domain = n[2], !.datacenter = n[3]] :
        n \in {<<"vm1", "d.com", "dal">>, <<"vm1", "d.com", "ams">>,
               <<"vm2", "d.com", "dal">>, <<"vm1", "e.org", "dal">>}}

\* module.params, as far as the code reads them.
NoParams ==
    [state |-> "none", hostname |-> NoStr, domain |-> NoStr, memory |-> NoInt,
     cpus |-> NoInt, datacenter |-> NoStr, hourly |-> FALSE, os_code |-> NoStr,
     image_id |-> NoInt, local_disk |-> FALSE, dedicated |-> FALSE,
     tags |-> NoStr, wait_for_ready |-> FALSE]

PresentParams ==
    [state : {"present"}, hostname : {NoStr, "vm1"}, domain : {NoStr, "d.com"},
     memory : {NoInt, 16}, cpus : {NoInt, 8}, datacenter : {NoStr, "dal"},
     hourly : BOOLEAN, os_code : {NoStr, "UBUNTU_LATEST"}, image_id : {NoInt, 123},
     local_disk : {TRUE}, dedicated : {FALSE}, tags : {NoStr},
     wait_for_ready : BOOLEAN]

AbsentParams ==
    [state : {"absent"}, hostname : {NoStr, "vm1"}, domain : {NoStr, "d.com"},
     memory : {16}, cpus : {8}, datacenter : {NoStr, "dal"},
     hourly : {TRUE}, os_code : {NoStr}, image_id : {NoInt},
     local_disk : {TRUE}, dedicated : {FALSE}, tags : {NoStr},
     wait_for_ready : {TRUE}]

NoServerResult == [kind |-> "none", changed |-> FALSE, msg |-> "", server |-> NoInst]

exit_json_server(changed, server, msg) ==
    [kind |-> "exit_json", changed |-> changed, msg |-> msg, server |-> server]

fail_json_server(msg) ==
    [kind |-> "fail_json", changed |-> FALSE, msg |-> msg, server |-> NoInst]

UncaughtServer(what) ==
    [kind |-> "exception", changed |-> FALSE, msg |-> what, server |-> NoInst]

MsgBothGiven == "image_id and os_code cannot both be specified"
MsgNeitherGiven == "You must specify either the OS code or image id"
MsgTimeout == "Timeout while waiting for server. It may not be ready."
MsgNoServers == "no servers were found with this specification"

\* '%s must be specified to order instance' % key
MsgMustBeSpecified(key) == <<key, "must be specified to order instance">>

\* The timeout of wait_for_ready and wait_for_transaction, in seconds.
WaitSeconds == 900

\* One provider call of sl_vs_server and the provider's answer.
ServerCall(op, id, filter, specs, timeout, outcome) ==
    [op |-> op, id |-> id, filter |-> filter, specs |-> specs,
     timeout |-> timeout, outcome |-> outcome]

NoFilter == [hostname |-> NoStr, domain |-> NoStr, datacenter |-> NoStr]

\* One invocation of main: where it is, its parameters, its locals, the
\* provider calls it made, the account it started from, and its result.
IdleProc ==
    [pc |-> "idle", n |-> 0, params |-> NoParams, found |-> << >>, i |-> 0,
     inst |-> NoInst, specs |-> NoSpecs, calls |-> << >>, pre |-> << >>,
     result |-> NoServerResult]

----------------------------------------------------------------------------
(* sl_sshkey.py *)

\* SshKeyManager.list_keys(label=label): the keys with that label, in order.
FilterLabel(ks, label) == SelectSeq(ks, LAMBDA k : k.label = label)

\* The loop of lines 73-83 without the label test of lines 81-83.
RECURSIVE KeyLoopNoLabelTest(_, _, _, _)
KeyLoopNoLabelTest(ks, i, finger, label) ==
    IF i > Len(ks) THEN [kind |-> "fallthrough"]
    ELSE IF ks[i].fingerprint = finger
         THEN IF ks[i].label = label
              THEN exit_json(FALSE, ks[i], "")
              ELSE exit_json(FALSE, ks[i], MsgUsingKey)
         ELSE KeyLoopNoLabelTest(ks, i + 1, finger, label)

\* Lines 73-83: the first key that ends the loop decides; "fallthrough" when
\* the loop ends without exit_json or fail_json.
RECURSIVE KeyLoop(_, _, _, _)
KeyLoop(ks, i, finger, label) ==
    IF i > Len(ks) THEN [kind |-> "fallthrough"]
    ELSE IF ks[i].fingerprint = finger
         THEN IF ks[i].label = label
              THEN exit_json(FALSE, ks[i], "")
              ELSE exit_json(FALSE, ks[i], MsgUsingKey)
         ELSE IF ks[i].label = label
              THEN fail_json(MsgLabelExists)
              ELSE KeyLoop(ks, i + 1, finger, label)

\* One provider call: what was asked and how the provider answered,
\* "ok", "raise" (SoftLayerAPIError), and for add_key also "falsy" (it
\* returned nothing).
KeyCall(op, id, label, public_key, outcome) ==
    [op |-> op, id |-> id, label |-> label, public_key |-> public_key,
     outcome |-> outcome]

CallOutcomes == {"ok", "raise"}
AddOutcomes == {"ok", "falsy", "raise"}

\* What one run of a handler did: its result, the provider calls it made, and
\* the account after it.
Ran(result, calls, ks, nextId) ==
    [result |-> result, calls |-> calls, keys |-> ks, nextId |-> nextId]

\* Lines 85-93 with the label left out of the add_key call.
AddKeyNoLabel(label, public_key, finger, ks, nextId, calls, addOutcome) ==
    IF public_key = NoText
    THEN Ran(fail_json(MsgKeyMustBeGiven), calls, ks, nextId)
    ELSE LET calls2 == Append(calls, KeyCall("add_key", 0, "", public_key, addOutcome))
             key == [id |-> nextId, label |-> "", fingerprint |-> finger]
         IN  CASE addOutcome = "raise" ->
                    Ran(Uncaught("add_key"), calls2, ks, nextId)
               [] addOutcome = "falsy" ->
                    Ran(fail_json(MsgNotCreated), calls2, ks, nextId)
               [] OTHER ->
                    Ran(exit_json(TRUE, key, ""), calls2, Append(ks, key), nextId + 1)

\* Lines 85-93, after the loop fell through.
AddKey(label, public_key, finger, ks, nextId, calls, addOutcome) ==
    IF public_key = NoText
    THEN Ran(fail_json(MsgKeyMustBeGiven), calls, ks, nextId)
    ELSE LET calls2 == Append(calls, KeyCall("add_key", 0, label, public_key, addOutcome))
             key == [id |-> nextId, label |-> label, fingerprint |-> finger]
         IN  CASE addOutcome = "raise" ->
                    Ran(Uncaught("add_key"), calls2, ks, nextId)
               [] addOutcome = "falsy" ->
                    Ran(fail_json(MsgNotCreated), calls2, ks, nextId)
               [] OTHER ->
                    Ran(exit_json(TRUE, key, ""), calls2, Append(ks, key), nextId + 1)

\* Lines 66-93.
_create_key(label, public_key, ks, nextId, listOutcome, addOutcome) ==
    LET finger == _get_fingerprint(public_key)
        calls == <<KeyCall("list_keys", 0, "", NoText, listOutcome)>>
        loop == KeyLoop(ks, 1, finger, label)
    IN  IF IsError(finger)
        THEN Ran(Uncaught(finger.error), << >>, ks, nextId)
        ELSE IF listOutcome = "raise"
        THEN Ran(Uncaught("list_keys"), calls, ks, nextId)
        ELSE IF loop.kind # "fallthrough"
        THEN Ran(loop, calls, ks, nextId)
        ELSE AddKey(label, public_key, finger, ks, nextId, calls, addOutcome)

\* SshKeyManager.delete_key(id)
RemoveId(ks, id) == SelectSeq(ks, LAMBDA k : k.id # id)

\* Lines 105-111 without the test of line 105: the first match is deleted.
DeleteFoundNoGuard(found, ks, nextId, calls, deleteOutcome) ==
    IF Len(found) > 0
    THEN LET calls2 == Append(calls, KeyCall("delete_key", found[1].id, "", NoText,
                                             deleteOutcome))
         IN  IF deleteOutcome = "raise"
             THEN Ran(Uncaught("delete_key"), calls2, ks, nextId)
             ELSE Ran(exit_json(TRUE, NoKey, ""), calls2, RemoveId(ks, found[1].id), nextId)
    ELSE Ran(exit_json(FALSE, NoKey, ""), calls, ks, nextId)

\* Lines 105-111 with changed=True reported whatever was found.
DeleteFoundAlwaysChanged(found, ks, nextId, calls, deleteOutcome) ==
    IF Len(found) > 1
    THEN Ran(fail_json(MsgMoreThanOne), calls, ks, nextId)
    ELSE IF Len(found) > 0
    THEN LET calls2 == Append(calls, KeyCall("delete_key", found[1].id, "", NoText,
                                             deleteOutcome))
         IN  IF deleteOutcome = "raise"
             THEN Ran(Uncaught("delete_key"), calls2, ks, nextId)
             ELSE Ran(exit_json(TRUE, NoKey, ""), calls2, RemoveId(ks, found[1].id), nextId)
    ELSE Ran(exit_json(TRUE, NoKey, ""), calls, ks, nextId)

\* Lines 105-111, on the list the provider returned.
DeleteFound(found, ks, nextId, calls, deleteOutcome) ==
    IF Len(found) > 1
    THEN Ran(fail_json(MsgMoreThanOne), calls, ks, nextId)
    ELSE IF Len(found) > 0
    THEN LET calls2 == Append(calls, KeyCall("delete_key", found[1].id, "", NoText,
                                             deleteOutcome))
         IN  IF deleteOutcome = "raise"
             THEN Ran(Uncaught("delete_key"), calls2, ks, nextId)
             ELSE Ran(exit_json(TRUE, NoKey, ""), calls2, RemoveId(ks, found[1].id), nextId)
    ELSE Ran(exit_json(FALSE, NoKey, ""), calls, ks, nextId)

\* Lines 101-111.
_delete_key(label, ks, nextId, listOutcome, deleteOutcome) ==
    LET calls == <<KeyCall("list_keys", 0, label, NoText, listOutcome)>>
    IN  IF listOutcome = "raise"
        THEN Ran(Uncaught("list_keys"), calls, ks, nextId)
        ELSE DeleteFound(FilterLabel(ks, label), ks, nextId, calls, deleteOutcome)

\* The record of one invocation: its parameters, the account it started
\* from, and what it did.
KeyInvocation(state, label, public_key, pre, ran) ==
    [state |-> state, label |-> label, public_key |-> public_key,
     pre |-> pre, calls |-> ran.calls, result |-> ran.result]

NoInvocation ==
    [state |-> "none", label |-> "", public_key |-> NoText,
     pre |-> << >>, calls |-> << >>, result |-> NoResult]

KeyInit ==
    /\ keys \in {Numbered(s) : s \in SeqsUpTo(KeyRecords, MaxKeys)}
    /\ keyNextId = Len(keys) + 1
    /\ kcur = NoInvocation
    /\ kprev = NoInvocation
    /\ kcount = 0
    /\ insts = << >>
    /\ instNextId = 1
    /\ procs = [p \in Procs |-> IdleProc]
    /\ scount = 0
    /\ fpIn = << >>
    /\ fpOut = << >>

KeyFinish(state, label, public_key, ran) ==
    /\ keys' = ran.keys
    /\ keyNextId' = ran.nextId
    /\ kprev' = kcur
    /\ kcur' = KeyInvocation(state, label, public_key, keys, ran)
    /\ kcount' = kcount + 1
    /\ UNCHANGED <<svars, fvars>>

\* main with state=present
KeyPresent ==
    /\ kcount < MaxKeyInv
    /\ \E label \in Labels, public_key \in KeyTexts,
          listOutcome \in CallOutcomes, addOutcome \in AddOutcomes :
          KeyFinish("present", label, public_key,
                    _create_key(label, public_key, keys, keyNextId,
                                listOutcome, addOutcome))

\* main with state=absent
KeyAbsent ==
    /\ kcount < MaxKeyInv
    /\ \E label \in Labels, public_key \in {NoText},
          listOutcome \in CallOutcomes, deleteOutcome \in CallOutcomes :
          KeyFinish("absent", label, public_key,
                    _delete_key(label, keys, keyNextId, listOutcome, deleteOutcome))

KeyNext == KeyPresent \/ KeyAbsent

SpecKey == KeyInit /\ [][KeyNext]_vars

----------------------------------------------------------------------------
(* _get_fingerprint on its own (SpecFingerprint) *)

\* The second field of a key text: base64 text that decodes to the bytes
\* noted, or that b64decode rejects.
KeyMaterials ==
    { <<"Q", "Q", "=", "=">>,           \* 65
      <<"Q", "g", "=", "=">>,           \* 66
      <<"Q", "A", "=", "=">>,           \* 64
      <<"Q", "B", "=", "=">>,           \* 64 again: the last four bits are dropped
      <<"Q", "!", "Q", "=", "=">>,      \* 65 again: '!' is skipped
      <<"Q", "Q", "A", "=">>,           \* 65 0
      <<"Q", "Q", "A", "A">>,           \* 65 0 0
      <<"Q", "Q">>,                     \* rejected: incorrect padding
      <<"Q">> }                         \* rejected

\* A key text by its parts: algorithm name, key material, comment (or none),
\* and whether whitespace leads and trails.
KeyParts ==
    [algo : {<<"r">>, <<"d">>}, material : KeyMaterials,
     comment : {NoText, <<"c">>}, lead : BOOLEAN, trail : BOOLEAN]

\* The text of the public_key parameter that has these parts.
Render(parts) ==
    (IF parts.lead THEN <<" ">> ELSE << >>)
    \o parts.algo \o <<" ">> \o parts.material
    \o (IF parts.comment = NoText THEN << >> ELSE <<" ">> \o parts.comment)
    \o (IF parts.trail THEN <<" ">> ELSE << >>)

FingerprintInit ==
    /\ fpIn \in {<<a, b>> : a \in KeyParts, b \in KeyParts}
    /\ fpOut = << >>
    /\ keys = << >>
    /\ keyNextId = 1
    /\ kcur = NoInvocation
    /\ kprev = NoInvocation
    /\ kcount = 0
    /\ insts = << >>
    /\ instNextId = 1
    /\ procs = [p \in Procs |-> IdleProc]
    /\ scount = 0

\* Line 71, for each of the two texts.
Fingerprint ==
    /\ fpOut = << >>
    /\ fpOut' = <<_get_fingerprint(Render(fpIn[1])), _get_fingerprint(Render(fpIn[2]))>>
    /\ UNCHANGED <<fpIn, kvars, svars>>

FingerprintNext == Fingerprint

SpecFingerprint == FingerprintInit /\ [][FingerprintNext]_vars

----------------------------------------------------------------------------
(* sl_vs_server.py *)

\* VSManager.list_instances(**filter): the entries for the instances that
\* agree with every filter value given (a falsy value filters nothing), in
\* the provider's order.
Matches(inst, filter) ==
    /\ filter.hostname # NoStr => inst.hostname = filter.hostname
    /\ filter.domain # NoStr => inst.domain = filter.domain
    /\ filter.datacenter # NoStr => inst.datacenter = filter.datacenter

list_instances(all, filter) == SelectSeq(all, LAMBDA inst : Matches(inst, filter))

\* VSManager.get_instance(id): the full record.
get_instance(all, id) ==
    [(CHOOSE inst \in {all[k] : k \in 1..Len(all)} : inst.id = id) EXCEPT !.full = TRUE]

Exists(all, id) == \E k \in 1..Len(all) : all[k].id = id

\* VSManager.cancel_instance(id)
cancel_instance(all, id) == SelectSeq(all, LAMBDA inst : inst.id # id)

\* VSManager.create_instance(**specs): the new instance, at place pos + 1 of
\* the provider's list.
create_instance(all, pos, id, n, specs) ==
    LET new == [id |-> id, hostname |-> specs.hostname, domain |-> specs.domain,
                datacenter |-> specs.datacenter, by |-> n, specs |-> specs,
                full |-> FALSE]
    IN  SubSeq(all, 1, pos) \o <<new>> \o SubSeq(all, pos + 1, Len(all))

\* Lines 233-235 with datacenter left out of instance_specs' required keys.
MissingKeysNoDatacenter(params) ==
    {key \in {"domain", "hostname", "memory", "cpus", "hourly"} :
        CASE key = "domain" -> params.domain = NoStr
          [] key = "hostname" -> params.hostname = NoStr
          [] key = "memory" -> params.memory = NoInt
          [] key = "cpus" -> params.cpus = NoInt
          [] key = "hourly" -> ~ params.hourly}

\* Lines 233-235: the keys of instance_specs whose value is falsy.
MissingKeys(params) ==
    {key \in {"domain", "hostname", "memory", "cpus", "datacenter", "hourly"} :
        CASE key = "domain" -> params.domain = NoStr
          [] key = "hostname" -> params.hostname = NoStr
          [] key = "memory" -> params.memory = NoInt
          [] key = "cpus" -> params.cpus = NoInt
          [] key = "datacenter" -> params.datacenter = NoStr
          [] key = "hourly" -> ~ params.hourly}

\* Lines 224-247 without the test of line 240: image_id wins over os_code.
ValidationFailuresNoBothTest(params) ==
    IF MissingKeys(params) # {}
    THEN {fail_json_server(MsgMustBeSpecified(key)) : key \in MissingKeys(params)}
    ELSE IF params.image_id = NoInt /\ params.os_code = NoStr
    THEN {fail_json_server(MsgNeitherGiven)}
    ELSE {}

\* Lines 224-247: the fail_json calls the validation can end in; none when
\* the parameters pass.  The loop of line 233 goes through the dict in an
\* order the language does not fix, so any falsy key may be the one named.
ValidationFailures(params) ==
    IF MissingKeys(params) # {}
    THEN {fail_json_server(MsgMustBeSpecified(key)) : key \in MissingKeys(params)}
    ELSE IF params.image_id # NoInt /\ params.os_code # NoStr
    THEN {fail_json_server(MsgBothGiven)}
    ELSE IF params.image_id = NoInt /\ params.os_code = NoStr
    THEN {fail_json_server(MsgNeitherGiven)}
    ELSE {}

\* Lines 224-258: the arguments of create_instance.
InstanceSpecs(params) ==
    [domain |-> params.domain, hostname |-> params.hostname,
     memory |-> params.memory, cpus |-> params.cpus,
     datacenter |-> params.datacenter, hourly |-> params.hourly,
     image_id |-> params.image_id,
     os_code |-> IF params.image_id # NoInt THEN NoStr ELSE params.os_code,
     local_disk |-> params.local_disk, dedicated |-> params.dedicated,
     tags |-> params.tags]

\* Line 347 and line 262: hostname and domain.
NameFilter(params) ==
    [hostname |-> params.hostname, domain |-> params.domain, datacenter |-> NoStr]

\* Lines 293-299: hostname and domain, and datacenter when given.
FindFilter(params) ==
    [hostname |-> params.hostname, domain |-> params.domain,
     datacenter |-> params.datacenter]

Finished(proc, result) == [proc EXCEPT !.pc = "done", !.result = result]

Called(proc, call) == [proc EXCEPT !.calls = Append(@, call)]

SetProc(p, proc) == procs' = [procs EXCEPT ![p] = proc]

\* main is entered: line 304.
Start(p, paramSet) ==
    /\ procs[p].pc = "idle"
    /\ scount < MaxSrvInv
    /\ \E params \in paramSet :
          SetProc(p, [IdleProc EXCEPT !.pc = "main", !.n = scount + 1,
                                      !.params = params, !.pre = insts])
    /\ scount' = scount + 1
    /\ UNCHANGED <<insts, instNextId, kvars, fvars>>

\* Lines 344-352 without the test of line 348: an order whatever was found.
AfterMainListNoTest(proc, found) ==
    IF ValidationFailures(proc.params) # {}
    THEN {Finished(proc, r) : r \in ValidationFailures(proc.params)}
    ELSE {[proc EXCEPT !.pc = "create", !.specs = InstanceSpecs(proc.params)]}

\* Lines 344-352 with inst[-1] for inst[0] on line 349: the last instance
\* listed is the one fetched.
AfterMainListLastFound(proc, found) ==
    IF Len(found) > 0
    THEN {[proc EXCEPT !.pc = "get_existing", !.found = found, !.inst = found[Len(found)]]}
    ELSE IF ValidationFailures(proc.params) # {}
    THEN {Finished(proc, r) : r \in ValidationFailures(proc.params)}
    ELSE {[proc EXCEPT !.pc = "create", !.specs = InstanceSpecs(proc.params)]}

\* Lines 344-352 and, with nothing found, lines 221-258 of _create_server:
\* everything up to the next provider call.
AfterMainList(proc, found) ==
    IF Len(found) > 0
    THEN {[proc EXCEPT !.pc = "get_existing", !.found = found, !.inst = found[1]]}
    ELSE IF ValidationFailures(proc.params) # {}
    THEN {Finished(proc, r) : r \in ValidationFailures(proc.params)}
    ELSE {[proc EXCEPT !.pc = "create", !.specs = InstanceSpecs(proc.params)]}

\* Line 347: mgr.list_instances(hostname=hostname, domain=domain)
MainList(p) ==
    /\ procs[p].pc = "main"
    /\ procs[p].params.state = "present"
    /\ \E outcome \in CallOutcomes :
          LET filter == NameFilter(procs[p].params)
              proc == Called(procs[p], ServerCall("list_instances", 0, filter, NoSpecs,
                                                  0, outcome))
          IN  IF outcome = "raise"
              THEN SetProc(p, Finished(proc, UncaughtServer("list_instances")))
              ELSE \E next \in AfterMainList(proc, list_instances(insts, filter)) :
                      SetProc(p, next)
    /\ UNCHANGED <<insts, instNextId, scount, kvars, fvars>>

\* Lines 349-350: mgr.get_instance(inst[0]['id']) and exit_json.
MainGet(p) ==
    /\ procs[p].pc = "get_existing"
    /\ \E outcome \in CallOutcomes :
          LET id == procs[p].inst.id
              proc == Called(procs[p], ServerCall("get_instance", id, NoFilter, NoSpecs,
                                                  0, outcome))
          IN  IF outcome = "raise" \/ ~ Exists(insts, id)
              THEN SetProc(p, Finished([proc EXCEPT !.calls[Len(proc.calls)].outcome = "raise"],
                                       UncaughtServer("get_instance")))
              ELSE SetProc(p, Finished(proc, exit_json_server(FALSE,
                                                  get_instance(insts, id), "")))
    /\ UNCHANGED <<insts, instNextId, scount, kvars, fvars>>

\* Line 261 in a loop that calls again when the call raised.
CreateRetriesOnFailure(p) ==
    /\ procs[p].pc = "create"
    /\ \E outcome \in CallOutcomes :
          LET proc == Called(procs[p], ServerCall("create_instance", 0, NoFilter,
                                                  procs[p].specs, 0, outcome))
          IN  IF outcome = "raise"
              THEN /\ IF Len(SelectSeq(proc.calls, LAMBDA c : c.op = "create_instance")) < 2
                      THEN SetProc(p, proc)
                      ELSE SetProc(p, Finished(proc, UncaughtServer("create_instance")))
                   /\ UNCHANGED <<insts, instNextId>>
              ELSE /\ SetProc(p, [proc EXCEPT !.pc = "requery"])
                   /\ \E pos \in 0..Len(insts) :
                         insts' = create_instance(insts, pos, instNextId,
                                                  procs[p].n, procs[p].specs)
                   /\ instNextId' = instNextId + 1
    /\ UNCHANGED <<scount, kvars, fvars>>

\* Line 261 behind a guard the code does not have: the order is refused when
\* an instance of the hostname and domain is on the account.
CreateGuarded(p) ==
    /\ procs[p].pc = "create"
    /\ IF list_instances(insts, NameFilter(procs[p].params)) # << >>
       THEN /\ SetProc(p, Finished(procs[p], fail_json_server("server exists")))
            /\ UNCHANGED <<insts, instNextId>>
       ELSE \E outcome \in CallOutcomes :
               LET proc == Called(procs[p], ServerCall("create_instance", 0, NoFilter,
                                                       procs[p].specs, 0, outcome))
               IN  IF outcome = "raise"
                   THEN /\ SetProc(p, Finished(proc, UncaughtServer("create_instance")))
                        /\ UNCHANGED <<insts, instNextId>>
                   ELSE /\ SetProc(p, [proc EXCEPT !.pc = "requery"])
                        /\ \E pos \in 0..Len(insts) :
                              insts' = create_instance(insts, pos, instNextId,
                                                       procs[p].n, procs[p].specs)
                        /\ instNextId' = instNextId + 1
    /\ UNCHANGED <<scount, kvars, fvars>>

\* Line 261: mgr.create_instance(**instance_specs)
Create(p) ==
    /\ procs[p].pc = "create"
    /\ \E outcome \in CallOutcomes :
          LET proc == Called(procs[p], ServerCall("create_instance", 0, NoFilter,
                                                  procs[p].specs, 0, outcome))
          IN  IF outcome = "raise"
              THEN /\ SetProc(p, Finished(proc, UncaughtServer("create_instance")))
                   /\ UNCHANGED <<insts, instNextId>>
              ELSE /\ SetProc(p, [proc EXCEPT !.pc = "requery"])
                   /\ \E pos \in 0..Len(insts) :
                         insts' = create_instance(insts, pos, instNextId,
                                                  procs[p].n, procs[p].specs)
                   /\ instNextId' = instNextId + 1
    /\ UNCHANGED <<scount, kvars, fvars>>

\* Lines 262-264: inst = mgr.list_instances(...)[0], and the branch on
\* wait_for_ready.
Requery(p) ==
    /\ procs[p].pc = "requery"
    /\ \E outcome \in CallOutcomes :
          LET filter == NameFilter(procs[p].params)
              found == list_instances(insts, filter)
              proc == Called(procs[p], ServerCall("list_instances", 0, filter, NoSpecs,
                                                  0, outcome))
          IN  IF outcome = "raise"
              THEN SetProc(p, Finished(proc, UncaughtServer("list_instances")))
              ELSE IF Len(found) = 0
              THEN SetProc(p, Finished(proc, UncaughtServer("IndexError")))
              ELSE SetProc(p, [proc EXCEPT !.found = found, !.inst = found[1],
                                  !.pc = IF proc.params.wait_for_ready
                                         THEN "wait_ready" ELSE "get_created"])
    /\ UNCHANGED <<insts, instNextId, scount, kvars, fvars>>

\* Lines 266-270 without the test of is_ready: the order is reported as made
\* whatever wait_for_ready returned.
WaitReadyIgnoresResult(p) ==
    /\ procs[p].pc = "wait_ready"
    /\ \E outcome \in {"ready", "not ready", "raise"} :
          LET proc == Called(procs[p], ServerCall("wait_for_ready", procs[p].inst.id,
                                                  NoFilter, NoSpecs, WaitSeconds, outcome))
          IN  IF outcome = "raise"
              THEN SetProc(p, Finished(proc, UncaughtServer("wait_for_ready")))
              ELSE SetProc(p, Finished(proc, exit_json_server(TRUE, proc.inst, "")))
    /\ UNCHANGED <<insts, instNextId, scount, kvars, fvars>>

\* Lines 266-270: mgr.wait_for_ready(inst['id'], 900)
WaitReady(p) ==
    /\ procs[p].pc = "wait_ready"
    /\ \E outcome \in {"ready", "not ready", "raise"} :
          LET proc == Called(procs[p], ServerCall("wait_for_ready", procs[p].inst.id,
                                                  NoFilter, NoSpecs, WaitSeconds, outcome))
          IN  CASE outcome = "raise" ->
                     SetProc(p, Finished(proc, UncaughtServer("wait_for_ready")))
                [] outcome = "ready" ->
                     SetProc(p, Finished(proc, exit_json_server(TRUE, proc.inst, "")))
                [] OTHER ->
                     SetProc(p, Finished(proc, fail_json_server(MsgTimeout)))
    /\ UNCHANGED <<insts, instNextId, scount, kvars, fvars>>

\* Lines 272-273 without the call of line 272: the entry of the list is
\* returned as it is.
GetCreatedNoFetch(p) ==
    /\ procs[p].pc = "get_created"
    /\ SetProc(p, Finished(procs[p], exit_json_server(TRUE, procs[p].inst, "")))
    /\ UNCHANGED <<insts, instNextId, scount, kvars, fvars>>

\* Lines 272-273: mgr.get_instance(inst['id']) and exit_json.
GetCreated(p) ==
    /\ procs[p].pc = "get_created"
    /\ \E outcome \in CallOutcomes :
          LET id == procs[p].inst.id
              proc == Called(procs[p], ServerCall("get_instance", id, NoFilter, NoSpecs,
                                                  0, outcome))
          IN  IF outcome = "raise" \/ ~ Exists(insts, id)
              THEN SetProc(p, Finished([proc EXCEPT !.calls[Len(proc.calls)].outcome = "raise"],
                                       UncaughtServer("get_instance")))
              ELSE SetProc(p, Finished(proc, exit_json_server(TRUE,
                                                  get_instance(insts, id), "")))
    /\ UNCHANGED <<insts, instNextId, scount, kvars, fvars>>

\* Lines 279-282: _find_servers and the test of its result.
FindServers(p) ==
    /\ procs[p].pc = "main"
    /\ procs[p].params.state = "absent"
    /\ \E outcome \in CallOutcomes :
          LET filter == FindFilter(procs[p].params)
              found == list_instances(insts, filter)
              proc == Called(procs[p], ServerCall("list_instances", 0, filter, NoSpecs,
                                                  0, outcome))
          IN  IF outcome = "raise"
              THEN SetProc(p, Finished(proc, UncaughtServer("list_instances")))
              ELSE IF Len(found) = 0
              THEN SetProc(p, Finished(proc, exit_json_server(FALSE, NoInst, MsgNoServers)))
              ELSE SetProc(p, [proc EXCEPT !.found = found, !.i = 1, !.pc = "wait_transaction"])
    /\ UNCHANGED <<insts, instNextId, scount, kvars, fvars>>

\* Line 285 with the first server found for the server of the loop: the wait
\* is always on the first instance.
WaitTransactionFirstId(p) ==
    /\ procs[p].pc = "wait_transaction"
    /\ \E outcome \in CallOutcomes :
          LET id == procs[p].found[1].id
              proc == Called(procs[p], ServerCall("wait_for_transaction", id, NoFilter,
                                                  NoSpecs, WaitSeconds, outcome))
          IN  IF outcome = "raise"
              THEN SetProc(p, Finished(proc, UncaughtServer("wait_for_transaction")))
              ELSE SetProc(p, [proc EXCEPT !.pc = "cancel"])
    /\ UNCHANGED <<insts, instNextId, scount, kvars, fvars>>

\* Line 285: mgr.wait_for_transaction(server['id'], 900)
WaitTransaction(p) ==
    /\ procs[p].pc = "wait_transaction"
    /\ \E outcome \in CallOutcomes :
          LET id == procs[p].found[procs[p].i].id
              proc == Called(procs[p], ServerCall("wait_for_transaction", id, NoFilter,
                                                  NoSpecs, WaitSeconds, outcome))
          IN  IF outcome = "raise"
              THEN SetProc(p, Finished(proc, UncaughtServer("wait_for_transaction")))
              ELSE SetProc(p, [proc EXCEPT !.pc = "cancel"])
    /\ UNCHANGED <<insts, instNextId, scount, kvars, fvars>>

\* Lines 286-288 with exit_json inside the loop: only the first server found
\* is canceled.
CancelFirstOnly(p) ==
    /\ procs[p].pc = "cancel"
    /\ \E outcome \in CallOutcomes :
          LET id == procs[p].found[procs[p].i].id
              proc == Called(procs[p], ServerCall("cancel_instance", id, NoFilter,
                                                  NoSpecs, 0, outcome))
          IN  IF outcome = "raise" \/ ~ Exists(insts, id)
              THEN /\ SetProc(p, Finished([proc EXCEPT !.calls[Len(proc.calls)].outcome = "raise"],
                                          UncaughtServer("cancel_instance")))
                   /\ UNCHANGED insts
              ELSE /\ insts' = cancel_instance(insts, id)
                   /\ SetProc(p, Finished(proc, exit_json_server(TRUE, NoInst, "")))
    /\ UNCHANGED <<instNextId, scount, kvars, fvars>>

\* Lines 284-288 with the call of line 286 in a try block that passes: after
\* a cancel_instance that raised the loop goes on.
CancelSwallowsFailure(p) ==
    /\ procs[p].pc = "cancel"
    /\ \E outcome \in CallOutcomes :
          LET id == procs[p].found[procs[p].i].id
              failed == outcome = "raise" \/ ~ Exists(insts, id)
              proc == Called(procs[p], ServerCall("cancel_instance", id, NoFilter, NoSpecs, 0,
                                                  IF failed THEN "raise" ELSE "ok"))
          IN  /\ insts' = IF failed THEN insts ELSE cancel_instance(insts, id)
              /\ IF proc.i = Len(proc.found)
                 THEN SetProc(p, Finished(proc, exit_json_server(TRUE, NoInst, "")))
                 ELSE SetProc(p, [proc EXCEPT !.i = @ + 1, !.pc = "wait_transaction"])
    /\ UNCHANGED <<instNextId, scount, kvars, fvars>>

\* Lines 286-288: mgr.cancel_instance(server['id']), the next server of the
\* loop, and exit_json after the last.
Cancel(p) ==
    /\ procs[p].pc = "cancel"
    /\ \E outcome \in CallOutcomes :
          LET id == procs[p].found[procs[p].i].id
              proc == Called(procs[p], ServerCall("cancel_instance", id, NoFilter,
                                                  NoSpecs, 0, outcome))
          IN  IF outcome = "raise" \/ ~ Exists(insts, id)
              THEN /\ SetProc(p, Finished([proc EXCEPT !.calls[Len(proc.calls)].outcome = "raise"],
                                          UncaughtServer("cancel_instance")))
                   /\ UNCHANGED insts
              ELSE /\ insts' = cancel_instance(insts, id)
                   /\ IF proc.i = Len(proc.found)
                      THEN SetProc(p, Finished(proc, exit_json_server(TRUE, NoInst, "")))
                      ELSE SetProc(p, [proc EXCEPT !.i = @ + 1, !.pc = "wait_transaction"])
    /\ UNCHANGED <<instNextId, scount, kvars, fvars>>

\* exit_json and fail_json end the process (sys.exit), and so does an
\* exception nothing catches: nothing of the invocation is kept.
Exit(p) ==
    /\ procs[p].pc = "done"
    /\ SetProc(p, IdleProc)
    /\ UNCHANGED <<insts, instNextId, scount, kvars, fvars>>

\* The provider's ids are unique: the i-th initial instance has id i.
ServerInit ==
    /\ insts \in {Numbered(s) : s \in SeqsUpTo(InitialInsts, MaxInsts)}
    /\ instNextId = Len(insts) + 1
    /\ procs = [p \in Procs |-> IdleProc]
    /\ scount = 0
    /\ fpIn = << >>
    /\ fpOut = << >>
    /\ keys = << >>
    /\ keyNextId = 1
    /\ kcur = NoInvocation
    /\ kprev = NoInvocation
    /\ kcount = 0

\* One invocation at a time: process 1 runs main again and again.
ServerNext ==
    \/ Start(1, PresentParams \cup AbsentParams)
    \/ MainList(1)
    \/ MainGet(1)
    \/ Create(1)
    \/ Requery(1)
    \/ WaitReady(1)
    \/ GetCreated(1)
    \/ FindServers(1)
    \/ WaitTransaction(1)
    \/ Cancel(1)
    \/ Exit(1)

SpecServer == ServerInit /\ [][ServerNext]_vars

----------------------------------------------------------------------------
(* Two sl_vs_server processes at once (SpecRace) *)

\* The requests of the race: complete orders for vm1.d.com, waiting or not,
\* and the cancellation of vm1.d.com.
RaceParams ==
    {params \in PresentParams \cup AbsentParams :
        /\ params.hostname = "vm1" /\ params.domain = "d.com"
        /\ params.state = "present" =>
              /\ params.memory # NoInt /\ params.cpus # NoInt
              /\ params.datacenter # NoStr /\ params.hourly
              /\ params.os_code # NoStr /\ params.image_id = NoInt
        /\ params.state = "absent" => params.datacenter = NoStr}

\* The account holds instances of other names only.
RaceInit ==
    /\ insts \in {Numbered(s) :
                    s \in SeqsUpTo({inst \in InitialInsts : inst.hostname # "vm1"}, MaxInsts)}
    /\ instNextId = Len(insts) + 1
    /\ procs = [p \in Procs |-> IdleProc]
    /\ scount = 0
    /\ fpIn = << >>
    /\ fpOut = << >>
    /\ keys = << >>
    /\ keyNextId = 1
    /\ kcur = NoInvocation
    /\ kprev = NoInvocation
    /\ kcount = 0

\* Each process is a run of the module by the engine; the provider takes
\* their calls one at a time, in any order.
RaceNext ==
    \E p \in Procs :
        \/ Start(p, RaceParams)
        \/ MainList(p)
        \/ MainGet(p)
        \/ Create(p)
        \/ Requery(p)
        \/ WaitReady(p)
        \/ GetCreated(p)
        \/ FindServers(p)
        \/ WaitTransaction(p)
        \/ Cancel(p)
        \/ Exit(p)

SpecRace == RaceInit /\ [][RaceNext]_vars

----------------------------------------------------------------------------
(* Either module (SpecEither) *)

\* A run of the engine invokes one of the two modules, on an account that
\* holds keys or instances.
EitherInit == KeyInit \/ ServerInit

EitherNext ==
    \/ /\ insts = << >>
       /\ scount = 0
       /\ KeyNext
    \/ /\ keys = << >>
       /\ kcount = 0
       /\ ServerNext

SpecEither == EitherInit /\ [][EitherNext]_vars

----------------------------------------------------------------------------
(* Properties of sl_sshkey (SpecKey) *)

CallsOf(inv, op) == SelectSeq(inv.calls, LAMBDA c : c.op = op)

\* The provider answered the invocation's list_keys call.
Listed(inv) == Len(inv.calls) > 0 /\ inv.calls[1].op = "list_keys" /\ inv.calls[1].outcome = "ok"

\* No provider call of the invocation raised.
NoneRaised(inv) == \A i \in 1..Len(inv.calls) : inv.calls[i].outcome # "raise"

Finger(inv) == _get_fingerprint(inv.public_key)

Range(s) == {s[i] : i \in 1..Len(s)}

\* C1: whenever the label-filtered list of a Key-Absent invocation holds more
\* than one key, the invocation ends in fail_json ("More than one sshkey
\* named"), makes no delete_key call, and leaves the account's keys as they
\* were.
AmbiguousLabelCase ==
    /\ kcur.state = "absent"
    /\ Listed(kcur)
    /\ Len(FilterLabel(kcur.pre, kcur.label)) > 1

C1_AmbiguityGuard ==
    AmbiguousLabelCase =>
        /\ kcur.result = fail_json(MsgMoreThanOne)
        /\ CallsOf(kcur, "delete_key") = << >>
        /\ keys = kcur.pre

C1_Witness ==
    /\ AmbiguousLabelCase
    /\ kcur.result.kind = "fail_json"

\* A key of the list with the requested label and another fingerprint.
LabelConflictCase ==
    /\ kcur.state = "present"
    /\ ~ IsError(Finger(kcur))
    /\ Listed(kcur)
    /\ \E k \in Range(kcur.pre) :
          k.label = kcur.label /\ k.fingerprint # Finger(kcur)

\* C2 as stated: whenever the list holds a key with the requested label and a
\* different fingerprint, Key-Present ends in the label-conflict failure and
\* never calls add_key.
C2_AsStated ==
    LabelConflictCase =>
        /\ kcur.result = fail_json(MsgLabelExists)
        /\ CallsOf(kcur, "add_key") = << >>

\* C2 amended: whenever the list holds a key with the requested label and a
\* different fingerprint, Key-Present never calls add_key and leaves the
\* account as it was; and when moreover no key of the list has the requested
\* fingerprint, it ends in the label-conflict failure.
C2_LabelConflict ==
    LabelConflictCase =>
        /\ CallsOf(kcur, "add_key") = << >>
        /\ keys = kcur.pre
        /\ (\A k \in Range(kcur.pre) : k.fingerprint # Finger(kcur))
              => kcur.result = fail_json(MsgLabelExists)

C2_Witness ==
    /\ LabelConflictCase
    /\ \A k \in Range(kcur.pre) : k.fingerprint # Finger(kcur)
    /\ Len(kcur.pre) > 1
    /\ kcur.result = fail_json(MsgLabelExists)

\* A key of the list with the fingerprint of the requested public key.
FingerprintMatchCase ==
    /\ kcur.state = "present"
    /\ ~ IsError(Finger(kcur))
    /\ Listed(kcur)
    /\ \E k \in Range(kcur.pre) : k.fingerprint = Finger(kcur)

\* C3: whenever the list holds a key with the fingerprint of the requested
\* public key, Key-Present ends in exit_json with changed=False, returns a key
\* of the list with that fingerprint, and never calls add_key, whatever the
\* labels are.
C3_FingerprintWins ==
    FingerprintMatchCase =>
        /\ kcur.result.kind = "exit_json"
        /\ kcur.result.changed = FALSE
        /\ kcur.result.key \in Range(kcur.pre)
        /\ kcur.result.key.fingerprint = Finger(kcur)
        /\ CallsOf(kcur, "add_key") = << >>

\* No key of the list has the requested fingerprint or the requested label.
NoMatchCase ==
    /\ kcur.state = "present"
    /\ ~ IsError(Finger(kcur))
    /\ kcur.public_key # NoText
    /\ Listed(kcur)
    /\ \A k \in Range(kcur.pre) :
          k.fingerprint # Finger(kcur) /\ k.label # kcur.label

\* C4: with a valid public key and no key of the list matching it by
\* fingerprint or by label, Key-Present makes exactly one add_key call, with
\* the requested key and label; and when the provider returns the new key it
\* ends with changed=True and a key that has the requested label and is on
\* the account.
C4_Creation ==
    NoMatchCase =>
        /\ Len(CallsOf(kcur, "add_key")) = 1
        /\ CallsOf(kcur, "add_key")[1].public_key = kcur.public_key
        /\ CallsOf(kcur, "add_key")[1].label = kcur.label
        /\ CallsOf(kcur, "add_key")[1].outcome = "ok" =>
              /\ kcur.result.kind = "exit_json"
              /\ kcur.result.changed = TRUE
              /\ kcur.result.key.label = kcur.label
              /\ keys = Append(kcur.pre, kcur.result.key)

C4_Witness ==
    /\ NoMatchCase
    /\ Len(kcur.pre) > 0
    /\ kcur.result.kind = "exit_json"
    /\ kcur.result.changed = TRUE

\* Two Key-Absent invocations for one label, one after the other, each
\* answered by the provider.
TwoAbsent ==
    /\ kprev.state = "absent" /\ kcur.state = "absent"
    /\ kprev.label = kcur.label
    /\ NoneRaised(kprev) /\ NoneRaised(kcur)

\* C5: of two Key-Absent invocations in a row for a label that exactly one
\* key has, the first ends changed=True after exactly one delete_key, on that
\* key's id, and the second ends changed=False without a delete_key; and a
\* Key-Absent invocation that follows one that ended in exit_json ends
\* changed=False.
C5_AbsentIdempotent ==
    TwoAbsent =>
        /\ Len(FilterLabel(kprev.pre, kprev.label)) = 1 =>
              /\ kprev.result = exit_json(TRUE, NoKey, "")
              /\ Len(CallsOf(kprev, "delete_key")) = 1
              /\ CallsOf(kprev, "delete_key")[1].id = FilterLabel(kprev.pre, kprev.label)[1].id
              /\ kcur.result = exit_json(FALSE, NoKey, "")
              /\ CallsOf(kcur, "delete_key") = << >>
        /\ kprev.result.kind = "exit_json" =>
              /\ kcur.result = exit_json(FALSE, NoKey, "")
              /\ CallsOf(kcur, "delete_key") = << >>

C5_Witness ==
    /\ TwoAbsent
    /\ Len(FilterLabel(kprev.pre, kprev.label)) = 1
    /\ Len(kprev.pre) > 1
    /\ kprev.result.changed = TRUE
    /\ kcur.result = exit_json(FALSE, NoKey, "")

\* A Key-Present invocation with no public key, on an account none of whose
\* keys has the requested label.
MissingKeyCase ==
    /\ kcur.state = "present"
    /\ kcur.public_key = NoText
    /\ \A k \in 1..Len(kcur.pre) : kcur.pre[k].label # kcur.label

\* C12: a Key-Present invocation with no public key, on an account where no
\* key matches, ends in the failure "A key must be given" and calls add_key
\* never.
C12_MissingKey ==
    MissingKeyCase =>
        /\ kcur.result = fail_json(MsgKeyMustBeGiven)
        /\ CallsOf(kcur, "add_key") = << >>

\* _get_fingerprint has returned for both texts.
FingerprintDone == fpOut # << >>

\* The bytes the key material of a text stands for.
KeyBytes(parts) == b64decode(parts.material)

----------------------------------------------------------------------------
(* Properties of sl_vs_server (SpecServer) *)

ServerCallsOf(proc, op) == SelectSeq(proc.calls, LAMBDA c : c.op = op)

\* The invocation's first provider call, a list_instances, was answered.
ServerListed(proc) ==
    /\ Len(proc.calls) > 0
    /\ proc.calls[1].op = "list_instances"
    /\ proc.calls[1].outcome = "ok"

\* What that call returned.
FirstList(proc) == list_instances(proc.pre, proc.calls[1].filter)

Present(proc) == proc.params.state = "present"

Absent(proc) == proc.params.state = "absent"

Ids(list) == [k \in 1..Len(list) |-> list[k].id]

\* An instance on the account when the invocation started that an earlier
\* invocation created, ordered with what this invocation would order.
CreatedByIdenticalRequest(proc, inst) ==
    /\ inst \in Range(proc.pre)
    /\ inst.by > 0 /\ inst.by < proc.n
    /\ inst.specs = InstanceSpecs(proc.params)

SecondPresentCase(proc) ==
    /\ Present(proc)
    /\ ServerListed(proc)
    /\ \E inst \in Range(FirstList(proc)) : CreatedByIdenticalRequest(proc, inst)

\* C6: a Server-Present invocation that repeats the request of an earlier
\* one, whose instance the provider lists, never calls create_instance and
\* leaves the account's instances as they were; and it ends with
\* changed=False once the provider has answered its calls.
C6_PresentIdempotent ==
    \A p \in Procs :
        SecondPresentCase(procs[p]) =>
            /\ ServerCallsOf(procs[p], "create_instance") = << >>
            /\ insts = procs[p].pre
            /\ (procs[p].pc = "done" /\ procs[p].result.kind # "exception") =>
                  /\ procs[p].result.kind = "exit_json"
                  /\ procs[p].result.changed = FALSE

C6_Witness ==
    \E p \in Procs :
        /\ SecondPresentCase(procs[p])
        /\ Len(FirstList(procs[p])) = 1
        /\ procs[p].pc = "done"
        /\ procs[p].result.kind = "exit_json"
        /\ procs[p].result.changed = FALSE

\* The required fields the request lacks, by the name the failure gives
\* them; the billing mode counts as lacking when hourly is not true.
LackingFields(params) ==
    (IF params.domain = NoStr THEN {"domain"} ELSE {})
    \cup (IF params.hostname = NoStr THEN {"hostname"} ELSE {})
    \cup (IF params.memory = NoInt THEN {"memory"} ELSE {})
    \cup (IF params.cpus = NoInt THEN {"cpus"} ELSE {})
    \cup (IF params.datacenter = NoStr THEN {"datacenter"} ELSE {})
    \cup (IF params.hourly THEN {} ELSE {"hourly"})

MissingFieldFailures(proc) ==
    {fail_json_server(MsgMustBeSpecified(key)) : key \in LackingFields(proc.params)}

MissingFieldCase(proc) ==
    /\ Present(proc)
    /\ LackingFields(proc.params) # {}

\* C7 as stated, for requests that give hostname and domain: a Server-Present
\* invocation that lacks a required field never calls create_instance and,
\* the provider answering its calls, ends in a failure naming a missing field.
C7_AsStated ==
    \A p \in Procs :
        (/\ MissingFieldCase(procs[p])
         /\ procs[p].params.hostname # NoStr
         /\ procs[p].params.domain # NoStr) =>
            /\ ServerCallsOf(procs[p], "create_instance") = << >>
            /\ (procs[p].pc = "done" /\ procs[p].result.kind # "exception") =>
                  procs[p].result \in MissingFieldFailures(procs[p])

\* C7 amended: a Server-Present invocation that lacks a required field never
\* calls create_instance; and when its list query returns no instance, it
\* ends in a failure naming a missing field, having made no other call.
C7_ValidationBeforeCreate ==
    \A p \in Procs :
        MissingFieldCase(procs[p]) =>
            /\ ServerCallsOf(procs[p], "create_instance") = << >>
            /\ (ServerListed(procs[p]) /\ FirstList(procs[p]) = << >>) =>
                  /\ procs[p].pc = "done"
                  /\ procs[p].result \in MissingFieldFailures(procs[p])
                  /\ Len(procs[p].calls) = 1
                  /\ insts = procs[p].pre

C7_Witness ==
    \E p \in Procs :
        /\ MissingFieldCase(procs[p])
        /\ LackingFields(procs[p].params) = {"datacenter"}
        /\ ServerListed(procs[p]) /\ FirstList(procs[p]) = << >>
        /\ procs[p].result = fail_json_server(MsgMustBeSpecified("datacenter"))

BothGivenCase(proc) ==
    /\ Present(proc)
    /\ proc.params.os_code # NoStr
    /\ proc.params.image_id # NoInt

\* C8 as stated: a Server-Present invocation with both os_code and image_id
\* ends in the failure "cannot both be specified" and makes no provider call.
C8_AsStated ==
    \A p \in Procs :
        BothGivenCase(procs[p]) =>
            /\ procs[p].calls = << >>
            /\ procs[p].pc = "done" => procs[p].result = fail_json_server(MsgBothGiven)

\* C8 amended: a Server-Present invocation with both os_code and image_id
\* makes no provider call but list_instances and get_instance; and when all
\* required fields are set and its list query returns no instance, it ends in
\* the failure "cannot both be specified", the list query its only call.
C8_ImageOsConflict ==
    \A p \in Procs :
        BothGivenCase(procs[p]) =>
            /\ \A k \in 1..Len(procs[p].calls) :
                  procs[p].calls[k].op \in {"list_instances", "get_instance"}
            /\ insts = procs[p].pre
            /\ (/\ LackingFields(procs[p].params) = {}
                /\ ServerListed(procs[p])
                /\ FirstList(procs[p]) = << >>) =>
                  /\ procs[p].pc = "done"
                  /\ procs[p].result = fail_json_server(MsgBothGiven)
                  /\ Len(procs[p].calls) = 1

C8_Witness ==
    \E p \in Procs :
        /\ BothGivenCase(procs[p])
        /\ ServerListed(procs[p]) /\ FirstList(procs[p]) = << >>
        /\ Len(procs[p].pre) > 0
        /\ procs[p].result = fail_json_server(MsgBothGiven)

\* A Server-Absent invocation that has ended and whose provider calls were
\* all answered.
AbsentDoneCase(proc) ==
    /\ Absent(proc)
    /\ proc.pc = "done"
    /\ ServerListed(proc)
    /\ \A k \in 1..Len(proc.calls) : proc.calls[k].outcome # "raise"

MonthlyOrderCase(proc) ==
    /\ Present(proc)
    /\ ~ proc.params.hourly
    /\ LackingFields(proc.params) = {"hourly"}
    /\ (proc.params.os_code # NoStr) # (proc.params.image_id # NoInt)
    /\ ServerListed(proc)
    /\ FirstList(proc) = << >>

\* C10: a complete Server-Present request with hourly=False, for a name no
\* instance has, reaches create_instance with hourly=False and does not end
\* in a missing-field failure.
C10_MonthlyOrderable ==
    \A p \in Procs :
        (MonthlyOrderCase(procs[p]) /\ procs[p].pc = "done") =>
            /\ Len(ServerCallsOf(procs[p], "create_instance")) = 1
            /\ ServerCallsOf(procs[p], "create_instance")[1].specs.hourly = FALSE
            /\ procs[p].result # fail_json_server(MsgMustBeSpecified("hourly"))

\* The instances on the account that invocation n ordered.
CreatedBy(n) == SelectSeq(insts, LAMBDA inst : inst.by = n)

\* A Server-Present invocation whose wait_for_ready returned not ready.
TimeoutCase(proc) ==
    /\ Present(proc)
    /\ \E k \in 1..Len(proc.calls) :
          /\ proc.calls[k].op = "wait_for_ready"
          /\ proc.calls[k].outcome = "not ready"

\* C11: a Server-Present invocation whose wait_for_ready(id, 900) returns not
\* ready ends in the failure "Timeout while waiting for server", with
\* changed not true; it has called create_instance once and cancel_instance
\* never, and the instance it ordered is still on the account.
C11_ProvisionTimeout ==
    \A p \in Procs :
        TimeoutCase(procs[p]) =>
            /\ procs[p].pc = "done"
            /\ procs[p].result = fail_json_server(MsgTimeout)
            /\ procs[p].result.changed = FALSE
            /\ procs[p].calls[Len(procs[p].calls)].op = "wait_for_ready"
            /\ procs[p].calls[Len(procs[p].calls)].timeout = 900
            /\ Len(ServerCallsOf(procs[p], "create_instance")) = 1
            /\ ServerCallsOf(procs[p], "cancel_instance") = << >>
            /\ Len(CreatedBy(procs[p].n)) = 1

C11_Witness ==
    \E p \in Procs :
        /\ TimeoutCase(procs[p])
        /\ procs[p].result = fail_json_server(MsgTimeout)
        /\ Len(CreatedBy(procs[p].n)) = 1
        /\ Len(insts) = Len(procs[p].pre) + 1

\* A Server-Present invocation for a name no instance had, whose order was
\* made and whose calls the provider answered; it has ended.
CreatedDoneCase(proc) ==
    /\ Present(proc)
    /\ proc.pc = "done"
    /\ ServerListed(proc)
    /\ \A k \in 1..Len(proc.calls) : proc.calls[k].outcome # "raise"
    /\ Len(ServerCallsOf(proc, "create_instance")) = 1

\* Its wait_for_ready returned ready.
ReadyCase(proc) ==
    /\ CreatedDoneCase(proc)
    /\ proc.params.wait_for_ready
    /\ \E k \in 1..Len(proc.calls) :
          /\ proc.calls[k].op = "wait_for_ready"
          /\ proc.calls[k].outcome = "ready"

\* C13: a Server-Present invocation with wait_for_ready set, whose instance
\* is ready before the timeout, ends with changed=True, and the server it
\* returns is the full record that a get_instance call made after
\* create_instance fetched.
C13_ReadyReturnsFullRecord ==
    \A p \in Procs :
        ReadyCase(procs[p]) =>
            /\ procs[p].result.kind = "exit_json"
            /\ procs[p].result.changed = TRUE
            /\ Len(ServerCallsOf(procs[p], "get_instance")) = 1
            /\ procs[p].result.server.full = TRUE

\* Its request has wait_for_ready false.
NoWaitCase(proc) ==
    /\ CreatedDoneCase(proc)
    /\ ~ proc.params.wait_for_ready

Ops(calls) == [k \in 1..Len(calls) |-> calls[k].op]

\* C14 as stated: a Server-Present invocation with wait_for_ready false ends
\* with changed=True after create_instance and the list re-query, having
\* called neither wait_for_ready nor get_instance.
C14_AsStated ==
    \A p \in Procs :
        NoWaitCase(procs[p]) =>
            /\ procs[p].result.kind = "exit_json"
            /\ procs[p].result.changed = TRUE
            /\ ServerCallsOf(procs[p], "wait_for_ready") = << >>
            /\ ServerCallsOf(procs[p], "get_instance") = << >>

\* C14 amended: a Server-Present invocation with wait_for_ready false never
\* calls wait_for_ready; after create_instance and the list re-query it calls
\* get_instance once, on the first entry of the re-query, and ends with
\* changed=True returning that full record.
C14_NoWait ==
    \A p \in Procs :
        /\ (Present(procs[p]) /\ ~ procs[p].params.wait_for_ready) =>
              ServerCallsOf(procs[p], "wait_for_ready") = << >>
        /\ NoWaitCase(procs[p]) =>
              /\ Ops(procs[p].calls) = <<"list_instances", "create_instance",
                                         "list_instances", "get_instance">>
              /\ procs[p].calls[4].id = procs[p].found[1].id
              /\ procs[p].result.kind = "exit_json"
              /\ procs[p].result.changed = TRUE
              /\ procs[p].result.server.id = procs[p].calls[4].id
              /\ procs[p].result.server.full = TRUE

C14_Witness ==
    \E p \in Procs :
        /\ NoWaitCase(procs[p])
        /\ Len(ServerCallsOf(procs[p], "get_instance")) = 1
        /\ procs[p].result.changed = TRUE
        /\ procs[p].result.server.full = TRUE
        /\ Len(CreatedBy(procs[p].n)) = 1

\* A Server-Present invocation whose list query returned an instance.
ExistingCase(proc) ==
    /\ Present(proc)
    /\ ServerListed(proc)
    /\ FirstList(proc) # << >>

\* C16: a Server-Present invocation whose list query returns one or more
\* instances, whatever the other fields of its request, calls nothing but
\* that list_instances and one get_instance on the first instance listed,
\* leaves the account's instances as they were and, the provider answering,
\* ends with changed=False returning that instance's full record.
C16_ExistingReadOnly ==
    \A p \in Procs :
        ExistingCase(procs[p]) =>
            /\ Len(procs[p].calls) <= 2
            /\ Len(procs[p].calls) = 2 =>
                  /\ procs[p].calls[2].op = "get_instance"
                  /\ procs[p].calls[2].id = FirstList(procs[p])[1].id
            /\ insts = procs[p].pre
            /\ (procs[p].pc = "done" /\ procs[p].result.kind # "exception") =>
                  /\ Len(procs[p].calls) = 2
                  /\ procs[p].result.kind = "exit_json"
                  /\ procs[p].result.changed = FALSE
                  /\ procs[p].result.server.id = FirstList(procs[p])[1].id
                  /\ procs[p].result.server.full = TRUE

C16_Witness ==
    \E p \in Procs :
        /\ ExistingCase(procs[p])
        /\ Len(FirstList(procs[p])) = 2
        /\ LackingFields(procs[p].params) # {}
        /\ BothGivenCase(procs[p])
        /\ procs[p].pc = "done"
        /\ procs[p].result.changed = FALSE
        /\ procs[p].result.server.id = FirstList(procs[p])[1].id
        /\ procs[p].result.server.full = TRUE

\* A Server-Absent invocation whose list query was answered.
AbsentListedCase(proc) ==
    /\ Absent(proc)
    /\ ServerListed(proc)

\* C17: in a Server-Absent invocation every cancel_instance(id) comes
\* directly after a wait_for_transaction(id, 900) on the same id that
\* returned; and the calls after the list query go through the instances
\* listed one at a time, in the list's order: wait and cancel for the first,
\* then wait and cancel for the second, and so on.
C17_AbsentOrdering ==
    \A p \in Procs :
        AbsentListedCase(procs[p]) =>
            \A k \in 2..Len(procs[p].calls) :
                /\ k \div 2 <= Len(FirstList(procs[p]))
                /\ procs[p].calls[k].id = FirstList(procs[p])[k \div 2].id
                /\ k % 2 = 0 =>
                      /\ procs[p].calls[k].op = "wait_for_transaction"
                      /\ procs[p].calls[k].timeout = 900
                /\ k % 2 = 1 =>
                      /\ procs[p].calls[k].op = "cancel_instance"
                      /\ procs[p].calls[k - 1].op = "wait_for_transaction"
                      /\ procs[p].calls[k - 1].id = procs[p].calls[k].id
                      /\ procs[p].calls[k - 1].outcome = "ok"

C17_Witness ==
    \E p \in Procs :
        /\ AbsentListedCase(procs[p])
        /\ Len(FirstList(procs[p])) = 2
        /\ Ops(procs[p].calls) = <<"list_instances", "wait_for_transaction", "cancel_instance",
                                   "wait_for_transaction", "cancel_instance">>
        /\ procs[p].calls[4].id = FirstList(procs[p])[2].id
        /\ procs[p].calls[5].id = FirstList(procs[p])[2].id
        /\ procs[p].calls[5].outcome = "ok"

\* A Server-Absent invocation one of whose wait or cancel calls raised.
BatchFailureCase(proc) ==
    /\ AbsentListedCase(proc)
    /\ \E k \in 2..Len(proc.calls) : proc.calls[k].outcome = "raise"

\* The index, in the list, of the instance the invocation's last call was for.
LastIndex(proc) == Len(proc.calls) \div 2

WithoutIds(all, ids) == SelectSeq(all, LAMBDA inst : inst.id \notin ids)

\* C18: when a wait or cancel call of a Server-Absent invocation raises on
\* the k-th of the n instances listed, the invocation has ended, in a failure
\* that reports no changed=True; the call that raised is its last, so no wait
\* or cancel is made for the instances after the k-th, which stay on the
\* account with the k-th; and the k-1 instances canceled before stay canceled.
C18_BatchFailure ==
    \A p \in Procs :
        BatchFailureCase(procs[p]) =>
            /\ procs[p].pc = "done"
            /\ procs[p].result.kind = "exception"
            /\ procs[p].result.changed = FALSE
            /\ \A k \in 1..(Len(procs[p].calls) - 1) : procs[p].calls[k].outcome = "ok"
            /\ \A k \in 2..Len(procs[p].calls) :
                  procs[p].calls[k].id \in
                      {FirstList(procs[p])[m].id : m \in 1..LastIndex(procs[p])}
            /\ insts = WithoutIds(procs[p].pre,
                           {FirstList(procs[p])[m].id : m \in 1..(LastIndex(procs[p]) - 1)})

C18_Witness ==
    \E p \in Procs :
        /\ BatchFailureCase(procs[p])
        /\ Len(FirstList(procs[p])) = 2
        /\ Len(procs[p].calls) = 5
        /\ procs[p].calls[5].op = "cancel_instance"
        /\ procs[p].calls[5].outcome = "raise"
        /\ ~ Exists(insts, FirstList(procs[p])[1].id)
        /\ Exists(insts, FirstList(procs[p])[2].id)
        /\ procs[p].result.kind = "exception"

----------------------------------------------------------------------------
(* Properties of two processes at once (SpecRace) *)

\* A complete Server-Present invocation whose first list query returned no
\* instance and which is past the point of its order, no call of it having
\* raised.
OrderedAfterEmptyList(proc) ==
    /\ Present(proc)
    /\ LackingFields(proc.params) = {}
    /\ (proc.params.os_code # NoStr) # (proc.params.image_id # NoInt)
    /\ ServerListed(proc)
    /\ proc.pc \in {"requery", "wait_ready", "get_created", "done"}
    /\ Len(proc.calls) >= 2 => proc.calls[2].op # "get_instance"
    /\ \A k \in 1..Len(proc.calls) : proc.calls[k].outcome # "raise"
    /\ proc.result.kind # "exception"

\* Two such invocations, in different processes, for the same hostname and
\* domain.
RacePair(p, q) ==
    /\ p # q
    /\ OrderedAfterEmptyList(procs[p])
    /\ OrderedAfterEmptyList(procs[q])
    /\ procs[p].params.hostname = procs[q].params.hostname
    /\ procs[p].params.domain = procs[q].params.domain

\* No instance has been canceled: the ids given out are all on the account.
NothingCanceled == Len(insts) = instNextId - 1

\* C19: nothing keeps two Server-Present invocations for the same hostname
\* and domain from both ordering.  When the list queries of both returned no
\* instance, each calls create_instance once and neither order is refused:
\* with nothing canceled since, the account holds the instance of each, two
\* instances of that hostname and domain.
C19_DuplicateCreation ==
    \A p \in Procs, q \in Procs :
        (RacePair(p, q) /\ NothingCanceled) =>
            /\ Len(ServerCallsOf(procs[p], "create_instance")) = 1
            /\ Len(ServerCallsOf(procs[q], "create_instance")) = 1
            /\ Len(CreatedBy(procs[p].n)) = 1
            /\ Len(CreatedBy(procs[q].n)) = 1
            /\ Len(list_instances(insts, NameFilter(procs[p].params))) >= 2

\* Both list queries returned nothing, both orders were made, and both
\* invocations ended with changed=True: two instances of one name.
C19_Witness ==
    \E p \in Procs, q \in Procs :
        /\ RacePair(p, q)
        /\ procs[p].pre = procs[q].pre
        /\ procs[p].pc = "done" /\ procs[p].result.changed = TRUE
        /\ procs[q].pc = "done" /\ procs[q].result.changed = TRUE
        /\ Len(list_instances(insts, NameFilter(procs[p].params))) = 2
        /\ Len(CreatedBy(procs[p].n)) = 1
        /\ Len(CreatedBy(procs[q].n)) = 1

\* A Server-Present invocation that has ended with changed=True.
ChangedCase(proc) ==
    /\ Present(proc)
    /\ proc.pc = "done"
    /\ proc.result.kind = "exit_json"
    /\ proc.result.changed = TRUE

\* C21: in every interleaving of invocations for one hostname and domain, a
\* Server-Present invocation that ends with changed=True returns the instance
\* its own create_instance call ordered, and any wait_for_ready or
\* get_instance call it made was on that instance's id; and the list re-query
\* after an answered create_instance is never empty, so no invocation ends in
\* the IndexError of line 262.
C21_CreatedInstanceIdentity ==
    \A p \in Procs :
        /\ ChangedCase(procs[p]) =>
              /\ procs[p].result.server.by = procs[p].n
              /\ \A k \in 1..Len(procs[p].calls) :
                    procs[p].calls[k].op \in {"wait_for_ready", "get_instance"} =>
                        procs[p].calls[k].id = procs[p].result.server.id
        /\ procs[p].result # UncaughtServer("IndexError")

----------------------------------------------------------------------------
(* Properties of both modules (SpecEither) *)

Distinct(s) == \A j \in 1..Len(s), k \in 1..Len(s) : s[j] = s[k] => j = k

\* The provider failed the call: it raised, add_key returned nothing, or
\* wait_for_ready returned not ready.
FailedCall(call) == call.outcome \in {"raise", "falsy", "not ready"}

\* No call of the log but the last was failed.
OnlyLastFailed(calls) == \A k \in 1..(Len(calls) - 1) : ~ FailedCall(calls[k])

LastFailed(calls) == calls # << >> /\ FailedCall(calls[Len(calls)])

\* An sl_sshkey invocation has ended in one of the three ways a module run
\* ends; it made at most one add_key and one delete_key call, and a call the
\* provider failed was its last, ending it in a failure with no change
\* reported.
KeyRunOnce(inv) ==
    inv.state # "none" =>
        /\ inv.result.kind \in {"exit_json", "fail_json", "exception"}
        /\ Len(CallsOf(inv, "add_key")) + Len(CallsOf(inv, "delete_key")) <= 1
        /\ Len(CallsOf(inv, "list_keys")) <= 1
        /\ OnlyLastFailed(inv.calls)
        /\ LastFailed(inv.calls) => inv.result.kind \in {"fail_json", "exception"}
        /\ inv.result.kind # "exit_json" => inv.result.changed = FALSE

\* The same of an sl_vs_server invocation, which has a result exactly when it
\* has ended: at most one create_instance call, at most one cancel_instance
\* call for an instance.
ServerRunOnce(proc) ==
    /\ proc.pc = "done" <=> proc.result.kind # "none"
    /\ proc.result.kind \in {"none", "exit_json", "fail_json", "exception"}
    /\ Len(ServerCallsOf(proc, "create_instance")) <= 1
    /\ Distinct(Ids(ServerCallsOf(proc, "cancel_instance")))
    /\ OnlyLastFailed(proc.calls)
    /\ LastFailed(proc.calls) =>
          /\ proc.pc = "done"
          /\ proc.result.kind \in {"fail_json", "exception"}
    /\ proc.result.kind # "exit_json" => proc.result.changed = FALSE

\* An invocation that has ended makes no call and changes nothing: its
\* process is gone.
EndedStaysEnded(p) ==
    procs[p].pc = "done" =>
        /\ procs'[p] \in {procs[p], IdleProc}
        /\ insts' = insts

\* C20: no retries, one end.  An invocation of either module makes at most
\* one creating call and at most one cancel or delete call for a resource;
\* it ends once, in exit_json, in fail_json or in an exception nothing
\* catches, which the engine reports as a failed task; a call the provider
\* failed is the invocation's last; and once ended it makes no further call.
C20_NoRetries ==
    /\ [](/\ KeyRunOnce(kcur)
          /\ KeyRunOnce(kprev)
          /\ LastFailed(kcur.calls) => keys = kcur.pre
          /\ \A p \in Procs : ServerRunOnce(procs[p]))
    /\ [][\A p \in Procs : EndedStaysEnded(p)]_vars

\* A Key-Absent invocation deleted a key; then an add_key that returned
\* nothing ended a Key-Present invocation in a failure, after that one call,
\* the account as it was.
C20_Witness ==
    /\ kcur.state = "present"
    /\ Len(CallsOf(kcur, "add_key")) = 1
    /\ kcur.calls[Len(kcur.calls)].outcome = "falsy"
    /\ kcur.result = fail_json(MsgNotCreated)
    /\ keys = kcur.pre
    /\ kprev.state = "absent"
    /\ kprev.result.changed = TRUE

====
